---- MODULE Spec2Model ----
(***************************************************************************)
(* Suffix tree with suffix links and Weiner links (Ukkonen's online        *)
(* construction) and the net-frequency queries computed on it.             *)
(*                                                                         *)
(* Bytes are their character codes.  Pointers to InternalNode and to       *)
(* LeafNode are indices into two heaps, `internal` and `leaf`, in order of *)
(* allocation; index 0 is nullptr.  Text positions are 0-based as in the   *)
(* source, At(i) reads txt[i].                                             *)
(*                                                                         *)
(* A uint32_t is represented by the integer nearest zero that is congruent *)
(* to it modulo 2^32, so a counter decremented below zero reads -1 where   *)
(* the program holds 2^32 - 1; sums and differences of such values this    *)
(* far from 2^31 need no reduction, and tests for zero and for equality    *)
(* are those of the program.                                               *)
(***************************************************************************)
EXTENDS Integers, Sequences, FiniteSets, TLC

\* ------------------------------------------------------------------------
\* bounds of the model
\* ------------------------------------------------------------------------
\* number of distinct bytes other than the sentinel in a drawn text
Sigma == 3
\* number of bytes before the sentinel in a drawn text
MaxLen == 6
\* number of all_nf calls on one tree
MaxAllNf == 2

\* ------------------------------------------------------------------------
\* constants of the program
\* ------------------------------------------------------------------------
\* '$', the terminating byte of the text in main
Sentinel == 36
\* nullptr
Null == 0
\* the handle of the root, the first InternalNode allocated
Root == 1
\* the i-th letter: 'a', 'b', ...
Letter(i) == 96 + i

Alphabet == {Letter(i) : i \in 1..Sigma}

\* "#abcdabybcdbxbcyabcd$"
PaperText ==
    << 35, 97, 98, 99, 100, 97, 98, 121, 98, 99, 100, 98, 120, 98, 99, 121,
       97, 98, 99, 100, 36 >>

\* "abcd"
PaperQuery == << 97, 98, 99, 100 >>

StringsUpTo(A, n) == UNION {[1..m -> A] : m \in 0..n}

\* w introduces its letters in alphabetical order: each byte is one already
\* seen or the next new letter
FirstUse(w) ==
    \A j \in 1..Len(w) :
        w[j] <= Letter(1 + Cardinality({w[i] : i \in 1..(j - 1)}))

\* The texts drawn: the strings over the alphabet followed by the sentinel,
\* and the text of main.  The program tests bytes for equality and keys its
\* maps by them and does nothing else with them, so renaming the letters of
\* a text renames the tree and every result with it; one text of each class
\* of renamings is drawn, the one that introduces its letters in order.
Texts ==
    {w \o << Sentinel >> : w \in {v \in StringsUpTo(Alphabet, MaxLen) : FirstUse(v)}}
    \cup {PaperText}

VARIABLES
    txt,            \* the input text
    internal,       \* heap of InternalNode, internal[Root] is the root
    leaf,           \* heap of LeafNode
    need_link,
    global_end,
    remainder,
    active_node,
    active_edge,
    active_length,
    k,              \* the phase: the argument of extend, the constructor's loop index
    pc,             \* "ctor": between phases, "extend": in extend's while loop,
                    \* "built": the constructor has returned, "returned": a
                    \* query has returned `ret` to its caller
    ret,            \* what the last find_internal_node or single_nf call returned
    emitted,        \* the lines the last all_nf call wrote
    calls           \* number of all_nf calls so far

vars ==
    << txt, internal, leaf, need_link, global_end, remainder, active_node,
       active_edge, active_length, k, pc, ret, emitted, calls >>

builder == << need_link, global_end, remainder, active_node, active_edge, active_length, k >>

\* txt[i]
At(i) == txt[i + 1]

\* txt.substr(pos, n): at most n bytes from pos, clipped at the end of the text
Substr(t, pos, n) ==
    LET m == IF pos + n > Len(t) THEN Len(t) - pos ELSE n
    IN  [j \in 1..m |-> t[pos + j]]

\* s.substr(i, len) of a query
SubstrOf(s, i, n) == Substr(s, i, n)

\* ------------------------------------------------------------------------
\* nodes
\* ------------------------------------------------------------------------
EmptyMap == [c \in {} |-> Null]

\* m[key] = v of an unordered_map
Put(m, key, v) == [c \in DOMAIN m \cup {key} |-> IF c = key THEN v ELSE m[c]]

\* m.erase(key)
Erase(m, key) == [c \in DOMAIN m \ {key} |-> m[c]]

InternalNode(i, j) ==
    [ start |-> i, end |-> j,
      internal_children |-> EmptyMap, leaf_children |-> EmptyMap,
      suffix_link |-> Null, weiner_links |-> << >>, nf |-> 0 ]

LeafNode(i) == [ start |-> i ]

\* LeafNode::edge_length: *end_ptr - start, end_ptr being &global_end
LeafEdgeLength(L, l) == global_end - L[l].start

\* InternalNode::edge_length
InternalEdgeLength(I, u) == I[u].end - I[u].start

\* std::find(wls.begin(), wls.end(), v) != wls.end()
Contains(wls, v) == \E j \in 1..Len(wls) : wls[j] = v

\* add_links appending the Weiner link without looking for it first
add_links_no_dedup(I, node) ==
    IF need_link # Null
    THEN [I EXCEPT ![need_link].suffix_link = node,
                   ![node].weiner_links = Append(@, need_link)]
    ELSE I

\* add_links: the heap after the call (need_link itself becomes node)
add_links(I, node) ==
    IF need_link # Null
    THEN LET I1 == [I EXCEPT ![need_link].suffix_link = node]
             wls == I1[node].weiner_links
         IN  IF ~Contains(wls, need_link)
             THEN [I1 EXCEPT ![node].weiner_links = Append(@, need_link)]
             ELSE I1
    ELSE I

\* ------------------------------------------------------------------------
\* the constructor and extend
\* ------------------------------------------------------------------------
\* no call has returned a value
NoRet == [op |-> "none", arg |-> << >>, S |-> Null, left |-> 0, val |-> 0]

Init ==
    /\ txt \in Texts
    /\ internal = << InternalNode(0, 0) >>
    /\ leaf = << >>
    /\ need_link = Null
    /\ global_end = 0
    /\ remainder = 0
    /\ active_node = Root
    /\ active_edge = 0
    /\ active_length = 0
    /\ k = 0
    /\ pc = "ctor"
    /\ ret = NoRet
    /\ emitted = << >>
    /\ calls = 0

\* the constructor calls extend(k); extend resets need_link and counts the new suffix
ExtendBegin ==
    /\ pc = "ctor"
    /\ k < Len(txt)
    /\ need_link' = Null
    /\ remainder' = remainder + 1
    /\ pc' = "extend"
    /\ UNCHANGED << txt, internal, leaf, global_end, active_node, active_edge,
                    active_length, k, ret, emitted, calls >>

\* active_edge after "if (active_length == 0) active_edge = k"
ActiveEdge == IF active_length = 0 THEN k ELSE active_edge

ActiveKey == At(ActiveEdge)

is_leaf == ActiveKey \in DOMAIN internal[active_node].leaf_children

is_internal == ActiveKey \in DOMAIN internal[active_node].internal_children

node_leaf == internal[active_node].leaf_children[ActiveKey]

node_internal == internal[active_node].internal_children[ActiveKey]

\* len of trick 1
ChildLen ==
    IF is_leaf THEN LeafEdgeLength(leaf, node_leaf)
    ELSE InternalEdgeLength(internal, node_internal)

prev_start == IF is_leaf THEN leaf[node_leaf].start ELSE internal[node_internal].start

InLoop == pc = "extend" /\ remainder > 0

\* the while loop is left: global_end++ and extend returns to the constructor
PhaseEnd ==
    /\ global_end' = global_end + 1
    /\ k' = k + 1
    /\ pc' = IF k + 1 < Len(txt) THEN "ctor" ELSE "built"

\* after an insertion, the active node going back to the root with no look
\* at its suffix link
AfterInsertion_to_root(I) ==
    /\ remainder' = remainder - 1
    /\ IF active_node = Root /\ active_length > 0
       THEN /\ active_length' = active_length - 1
            /\ active_edge' = k - (remainder - 1) + 1
            /\ active_node' = active_node
       ELSE /\ active_length' = active_length
            /\ active_edge' = ActiveEdge
            /\ active_node' = Root
    /\ IF remainder - 1 > 0
       THEN UNCHANGED << global_end, k, pc >>
       ELSE /\ global_end' = global_end + 1
            /\ k' = k + 1
            /\ pc' = IF k + 1 < Len(txt) THEN "ctor" ELSE "built"

\* after an insertion from the root, active_edge left where it was
AfterInsertion_keep_edge(I) ==
    /\ remainder' = remainder - 1
    /\ IF active_node = Root /\ active_length > 0
       THEN /\ active_length' = active_length - 1
            /\ active_edge' = ActiveEdge
            /\ active_node' = active_node
       ELSE /\ active_length' = active_length
            /\ active_edge' = ActiveEdge
            /\ active_node' = IF I[active_node].suffix_link # Null
                              THEN I[active_node].suffix_link
                              ELSE Root
    /\ IF remainder - 1 > 0
       THEN UNCHANGED << global_end, k, pc >>
       ELSE /\ global_end' = global_end + 1
            /\ k' = k + 1
            /\ pc' = IF k + 1 < Len(txt) THEN "ctor" ELSE "built"

\* after an insertion: remainder--, then the active point moves to the next suffix
AfterInsertion(I) ==
    /\ remainder' = remainder - 1
    /\ IF active_node = Root /\ active_length > 0
       THEN /\ active_length' = active_length - 1
            /\ active_edge' = k - (remainder - 1) + 1
            /\ active_node' = active_node
       ELSE /\ active_length' = active_length
            /\ active_edge' = ActiveEdge
            /\ active_node' = IF I[active_node].suffix_link # Null
                              THEN I[active_node].suffix_link
                              ELSE Root
    /\ IF remainder - 1 > 0
       THEN UNCHANGED << global_end, k, pc >>
       ELSE PhaseEnd

\* rule 2b: no child on txt[active_edge], a new leaf hangs off active_node
Rule2b ==
    /\ InLoop
    /\ ~is_leaf /\ ~is_internal
    /\ LET l == Len(leaf) + 1
           I1 == [internal EXCEPT ![active_node].leaf_children = Put(@, ActiveKey, l)]
           I2 == add_links(I1, active_node)
       IN  /\ leaf' = Append(leaf, LeafNode(k))
           /\ internal' = I2
           /\ need_link' = active_node
           /\ AfterInsertion(I2)
    /\ UNCHANGED << txt, ret, emitted, calls >>

\* trick 1: the active point is at or past the end of the child's edge.
\* assert(is_internal) guards the step: with a leaf for child the program
\* aborts there (and, compiled without assertions, dereferences the end
\* iterator of internal_children), so no step of the builder follows.
WalkDown ==
    /\ InLoop
    /\ is_internal
    /\ active_length >= ChildLen
    /\ active_edge' = ActiveEdge + ChildLen
    /\ active_length' = active_length - ChildLen
    /\ active_node' = node_internal
    /\ UNCHANGED << txt, internal, leaf, need_link, global_end, remainder, k, pc,
                    ret, emitted, calls >>

\* rule 3: the byte is already on the edge; the phase ends
Rule3 ==
    /\ InLoop
    /\ is_leaf \/ is_internal
    /\ active_length < ChildLen
    /\ At(prev_start + active_length) = At(k)
    /\ active_length' = active_length + 1
    /\ active_edge' = ActiveEdge
    /\ internal' = add_links(internal, active_node)
    /\ need_link' = active_node
    /\ PhaseEnd
    /\ UNCHANGED << txt, leaf, remainder, active_node, ret, emitted, calls >>

\* rule 2a on an edge to a leaf
SplitLeaf ==
    /\ InLoop
    /\ is_leaf
    /\ active_length < ChildLen
    /\ At(prev_start + active_length) # At(k)
    /\ LET node == node_leaf
           node_start == leaf[node].start + active_length
           internal_node == Len(internal) + 1
           l == Len(leaf) + 1
           M == [InternalNode(prev_start, node_start) EXCEPT
                    !.leaf_children = Put(Put(EmptyMap, At(k), l), At(node_start), node)]
           I1 == Append(internal, M)
           I2 == [I1 EXCEPT ![active_node].internal_children =
                                Put(@, ActiveKey, internal_node),
                            ![active_node].leaf_children = Erase(@, ActiveKey)]
           I3 == add_links(I2, internal_node)
       IN  /\ leaf' = Append([leaf EXCEPT ![node].start = node_start], LeafNode(k))
           /\ internal' = I3
           /\ need_link' = internal_node
           /\ AfterInsertion(I3)
    /\ UNCHANGED << txt, ret, emitted, calls >>

\* rule 2a on an edge to an internal node
SplitInternal ==
    /\ InLoop
    /\ ~is_leaf /\ is_internal
    /\ active_length < ChildLen
    /\ At(prev_start + active_length) # At(k)
    /\ LET node == node_internal
           node_start == internal[node].start + active_length
           internal_node == Len(internal) + 1
           l == Len(leaf) + 1
           M == [InternalNode(prev_start, node_start) EXCEPT
                    !.leaf_children = Put(EmptyMap, At(k), l),
                    !.internal_children = Put(EmptyMap, At(node_start), node)]
           I1 == Append([internal EXCEPT ![node].start = node_start], M)
           I2 == [I1 EXCEPT ![active_node].internal_children =
                                Put(@, ActiveKey, internal_node)]
           I3 == add_links(I2, internal_node)
       IN  /\ leaf' = Append(leaf, LeafNode(k))
           /\ internal' = I3
           /\ need_link' = internal_node
           /\ AfterInsertion(I3)
    /\ UNCHANGED << txt, ret, emitted, calls >>

Extend == ExtendBegin \/ Rule2b \/ WalkDown \/ Rule3 \/ SplitLeaf \/ SplitInternal

\* the constructor alone
Construction == Init /\ [][Extend]_vars

\* ------------------------------------------------------------------------
\* find_internal_node
\* ------------------------------------------------------------------------
Min(a, b) == IF a < b THEN a ELSE b

\* the while loop of find_internal_node from `node` with s[0..i) matched:
\* the pair returned
RECURSIVE Descend(_, _, _)
Descend(s, node, i) ==
    IF i >= Len(s)
    THEN << node, i - Len(s) >>
    ELSE LET c == s[i + 1]
         IN  IF c \in DOMAIN internal[node].internal_children
             THEN LET internal_child == internal[node].internal_children[c]
                      len == Min(InternalEdgeLength(internal, internal_child), Len(s) - i)
                  IN  IF SubstrOf(s, i, len) = Substr(txt, internal[internal_child].start, len)
                      THEN Descend(s, internal_child,
                                   i + InternalEdgeLength(internal, internal_child))
                      ELSE << Null, 0 >>
             ELSE IF c \in DOMAIN internal[node].leaf_children
                  THEN << Null, 1 >>
                  ELSE << Null, 0 >>

find_internal_node(s) == Descend(s, Root, 0)

\* ------------------------------------------------------------------------
\* single_nf
\* ------------------------------------------------------------------------
\* the decrements of the two nested loops over weiner_links[1..j] of S
RECURSIVE SharedLeaves(_, _)
SharedLeaves(S, j) ==
    IF j = 0 THEN 0
    ELSE LET xS == internal[S].weiner_links[j]
         IN  SharedLeaves(S, j - 1)
             + Cardinality(DOMAIN internal[xS].leaf_children
                           \cap DOMAIN internal[S].leaf_children)

\* single_nf returning the number of leaf children, the left extensions
\* left out
single_nf_right_only(s) ==
    LET found == find_internal_node(s)
        S == found[1]
        left_len_S == found[2]
    IN  IF S = Null \/ left_len_S # 0 THEN 0
        ELSE Cardinality(DOMAIN internal[S].leaf_children)

single_nf(s) ==
    LET found == find_internal_node(s)
        S == found[1]
        left_len_S == found[2]
    IN  IF S = Null \/ left_len_S # 0 THEN 0
        ELSE LET nf == Cardinality(DOMAIN internal[S].leaf_children)
             IN  IF nf = 0 THEN 0
                 ELSE nf - SharedLeaves(S, Len(internal[S].weiner_links))

\* ------------------------------------------------------------------------
\* all_nf
\* ------------------------------------------------------------------------
\* The loops over internal_children visit the children in the order of the
\* unordered_map, which the program does not fix.  The updates of process
\* commute, so the heap it leaves is the same in every order; the lines of
\* report come in that order, and the properties below read them as a
\* multiset.  Here the children are visited in ascending order of their byte.
Lowest(ks) == CHOOSE c \in ks : \A d \in ks : c <= d

\* the visit decrementing the suffix link target for every leaf child of xS,
\* shared or not
Accumulate_unchecked(I, xS) ==
    LET own == DOMAIN I[xS].leaf_children
    IN  IF own # {}
        THEN LET I1 == [I EXCEPT ![xS].nf = @ + Cardinality(own)]
                 S == I1[xS].suffix_link
             IN  [I1 EXCEPT ![S].nf = @ - Cardinality(own)]
        ELSE I

\* the visit without the decrement at the suffix link target
Accumulate_no_cancel(I, xS) ==
    LET own == DOMAIN I[xS].leaf_children
    IN  IF own # {}
        THEN [I EXCEPT ![xS].nf = @ + Cardinality(own)]
        ELSE I

\* the accumulation of one visit: xS gains its leaf children, its suffix link
\* target loses one per leaf byte they share
Accumulate(I, xS) ==
    LET own == DOMAIN I[xS].leaf_children
    IN  IF own # {}
        THEN LET I1 == [I EXCEPT ![xS].nf = @ + Cardinality(own)]
                 S == I1[xS].suffix_link
             IN  [I1 EXCEPT ![S].nf =
                      @ - Cardinality(own \cap DOMAIN I1[S].leaf_children)]
        ELSE I

RECURSIVE process(_, _), processChildren(_, _, _)
process(I, xS) ==
    LET I1 == Accumulate(I, xS)
    IN  processChildren(I1, xS, DOMAIN I1[xS].internal_children)

\* process on the children of u keyed by the bytes ks
processChildren(I, u, ks) ==
    IF ks = {} THEN I
    ELSE LET c == Lowest(ks)
         IN  processChildren(process(I, I[u].internal_children[c]), u, ks \ {c})

\* the substring report prints for a node
Reported(start_pos, string_depth) == Substr(txt, start_pos, string_depth)

RECURSIVE report(_, _, _, _), reportChildren(_, _, _, _, _)
report(I, S, start_pos, string_depth) ==
    ( IF I[S].nf # 0
      THEN << << Reported(start_pos, string_depth), I[S].nf >> >>
      ELSE << >> )
    \o reportChildren(I, S, DOMAIN I[S].internal_children, start_pos, string_depth)

reportChildren(I, S, ks, start_pos, string_depth) ==
    IF ks = {} THEN << >>
    ELSE LET c == Lowest(ks)
             child == I[S].internal_children[c]
         IN  report(I, child, start_pos, string_depth + InternalEdgeLength(I, child))
             \o reportChildren(I, S, ks \ {c}, start_pos, string_depth)

\* the second loop of all_nf: report on every internal child of the root
RECURSIVE reportRoot(_, _)
reportRoot(I, ks) ==
    IF ks = {} THEN << >>
    ELSE LET c == Lowest(ks)
             S == I[Root].internal_children[c]
         IN  report(I, S, I[S].start, InternalEdgeLength(I, S))
             \o reportRoot(I, ks \ {c})

\* ------------------------------------------------------------------------
\* the operations on a built tree
\* ------------------------------------------------------------------------
\* the bytes of queries: the alphabet, the sentinel and the bytes of the text
Bytes(t) == Alphabet \cup {Sentinel} \cup {t[j] : j \in 1..Len(t)}

\* the substrings of t, the empty one among them
Substrings(t) == {Substr(t, i, n) : i \in 0..(Len(t) - 1), n \in 0..Len(t)}

\* the queries drawn: the empty query, and every substring of the text
\* followed by any one byte: every string that occurs in the text, and every
\* string that leaves the text at its last byte, the text followed by one
\* more byte among them
Queries(t) == {<< >>} \cup {p \o << c >> : p \in Substrings(t), c \in Bytes(t)}

\* a call of find_internal_node(s) returns
FindInternalNode ==
    /\ pc = "built"
    /\ \E s \in Queries(txt) :
          LET found == find_internal_node(s)
          IN  ret' = [op |-> "find_internal_node", arg |-> s,
                      S |-> found[1], left |-> found[2], val |-> 0]
    /\ pc' = "returned"
    /\ UNCHANGED << txt, internal, leaf, builder, emitted, calls >>

\* a call of single_nf(s) returns
SingleNf ==
    /\ pc = "built"
    /\ \E s \in Queries(txt) :
          LET found == find_internal_node(s)
          IN  ret' = [op |-> "single_nf", arg |-> s,
                      S |-> found[1], left |-> found[2], val |-> single_nf(s)]
    /\ pc' = "returned"
    /\ UNCHANGED << txt, internal, leaf, builder, emitted, calls >>

\* the caller has taken the returned value and goes on
Resume ==
    /\ pc = "returned"
    /\ pc' = "built"
    /\ ret' = NoRet
    /\ UNCHANGED << txt, internal, leaf, builder, emitted, calls >>

\* a call of all_nf: the accumulation pass, then the report pass
AllNf ==
    /\ pc = "built"
    /\ calls < MaxAllNf
    /\ LET I1 == processChildren(internal, Root, DOMAIN internal[Root].internal_children)
       IN  /\ internal' = I1
           /\ emitted' = reportRoot(I1, DOMAIN I1[Root].internal_children)
    /\ calls' = calls + 1
    /\ UNCHANGED << txt, leaf, builder, pc, ret >>

Next == Extend \/ FindInternalNode \/ SingleNf \/ Resume \/ AllNf

Spec == Init /\ [][Next]_vars

\* ------------------------------------------------------------------------
\* what the properties are stated with
\* ------------------------------------------------------------------------
\* s occurs in t at position i (0-based)
OccursAt(t, s, i) == i + Len(s) <= Len(t) /\ Substr(t, i, Len(s)) = s

\* the number of occurrences of s in t
Occ(t, s) == Cardinality({i \in 0..Len(t) : OccursAt(t, s, i)})

\* the net frequency of s in t: the occurrences of a repeated s whose right
\* extension is unique and whose left extension is unique or does not exist
NetFrequency(t, s) ==
    IF Occ(t, s) < 2 THEN 0
    ELSE Cardinality({i \in 0..Len(t) :
            /\ OccursAt(t, s, i)
            /\ i + Len(s) < Len(t)
            /\ Occ(t, Substr(t, i, Len(s) + 1)) = 1
            /\ i = 0 \/ Occ(t, Substr(t, i - 1, Len(s) + 1)) = 1})

\* the label of the edge into internal node u
Label(I, u) == Substr(txt, I[u].start, InternalEdgeLength(I, u))

\* the pairs << v, string v represents >> of the internal nodes v below u,
\* u itself representing str: the labels from the root concatenated
RECURSIVE Represented(_, _, _)
Represented(I, u, str) ==
    {<< u, str >>} \cup
    UNION {Represented(I, I[u].internal_children[c],
                       str \o Label(I, I[u].internal_children[c]))
           : c \in DOMAIN I[u].internal_children}

Paths == Represented(internal, Root, << >>)

NonRoot == 2..Len(internal)

\* how often x is in the sequence q
Count(q, x) == Cardinality({j \in 1..Len(q) : q[j] = x})

\* the leaf at which the path spelling txt[i..n) from internal node u ends
\* exactly, Null when it ends nowhere or elsewhere
RECURSIVE LeafOf(_, _)
LeafOf(u, i) ==
    IF i >= Len(txt) THEN Null
    ELSE LET c == At(i)
         IN  IF c \in DOMAIN internal[u].internal_children
             THEN LET v == internal[u].internal_children[c]
                      len == InternalEdgeLength(internal, v)
                  IN  IF i + len <= Len(txt) /\ Label(internal, v) = Substr(txt, i, len)
                      THEN LeafOf(v, i + len)
                      ELSE Null
             ELSE IF c \in DOMAIN internal[u].leaf_children
                  THEN LET l == internal[u].leaf_children[c]
                           len == LeafEdgeLength(leaf, l)
                       IN  IF i + len = Len(txt)
                              /\ Substr(txt, leaf[l].start, len) = Substr(txt, i, len)
                           THEN l
                           ELSE Null
                  ELSE Null

\* extend has returned, or was never called
PhaseDone == pc \in {"ctor", "built"}

\* a call of single_nf with a non-empty query has returned
SingleNfReturned == pc = "returned" /\ ret.op = "single_nf" /\ ret.arg # << >>

\* "aaaa$"
TextAAAA == << 97, 97, 97, 97, 36 >>

\* ------------------------------------------------------------------------
\* the properties
\* ------------------------------------------------------------------------

\* C1: on a sentinel-terminated text, single_nf of a non-empty query returns
\* the net frequency of the query in the text (0 for an absent, a unique or a
\* non-branching query); for the text of main and "abcd" that is 2.
C1_SingleNfIsNetFrequency ==
    SingleNfReturned => ret.val = NetFrequency(txt, ret.arg)

\* single_nf("abcd") has returned 2 on "#abcdabybcdbxbcyabcd$"
C1_Witness ==
    /\ SingleNfReturned
    /\ txt = PaperText
    /\ ret.arg = PaperQuery
    /\ ret.val = 2

\* C2: the first all_nf on a fresh tree writes one line per non-root internal
\* node with nonzero nf, no other line, and the string on the line of a node
\* is the string the node represents.
C2_ReportsRepresentedStrings ==
    calls = 1 =>
        LET ps == Paths
            hit == {u \in NonRoot : internal[u].nf # 0}
        IN  /\ Len(emitted) = Cardinality(hit)
            /\ \A u \in hit :
                 \E p \in ps : p[1] = u /\ Count(emitted, << p[2], internal[u].nf >>) = 1

\* C3: after the first all_nf, single_nf of a non-empty query returns the nf
\* the accumulation pass left in the query's node when the query is branching,
\* and 0 for every other query.
C3_SingleNfAgreesWithAllNf ==
    (SingleNfReturned /\ calls = 1) =>
        ret.val = IF ret.S # Null /\ ret.left = 0 THEN internal[ret.S].nf ELSE 0

\* single_nf has returned a positive value for a branching query after all_nf
C3_Witness ==
    /\ SingleNfReturned
    /\ calls = 1
    /\ ret.S # Null /\ ret.left = 0
    /\ ret.val > 0

\* C4: find_internal_node of a non-empty query returns {none, 0} exactly when
\* the query does not occur in the text, and {none, 1} only when it occurs
\* exactly once.
C4_LocatorTellsAbsentFromUnique ==
    (pc = "returned" /\ ret.op = "find_internal_node" /\ ret.arg # << >>) =>
        /\ (ret.S = Null /\ ret.left = 0) <=> Occ(txt, ret.arg) = 0
        /\ (ret.S = Null /\ ret.left = 1) => Occ(txt, ret.arg) = 1

\* C5: single_nf of the empty query returns 0.
C5_EmptyQueryIsZero ==
    (pc = "returned" /\ ret.op = "single_nf" /\ ret.arg = << >>) => ret.val = 0

\* C6: a repeated all_nf leaves every nf and the lines written as the call
\* before it left them.
C6_RepeatedAllNfIsSafe ==
    [][ (calls >= 1 /\ calls' = calls + 1) =>
            /\ emitted' = emitted
            /\ \A u \in 1..Len(internal) : internal'[u].nf = internal[u].nf ]_vars

\* C7 as stated: on "aaaa$" the first all_nf writes the one line ("a", 1).
C7_AsStated ==
    (txt = TextAAAA /\ calls = 1) => emitted = << << << 97 >>, 1 >> >>

\* C7, amended: on "aaaa$" the first all_nf writes the one line ("aaa", 2).
C7_WritesAAA2 ==
    (txt = TextAAAA /\ calls = 1) => emitted = << << << 97, 97, 97 >>, 2 >> >>

\* the first all_nf on "aaaa$" has run
C7_Witness == txt = TextAAAA /\ calls = 1 /\ Len(emitted) = 1

\* C8: after every return of extend, every non-root internal node has a
\* suffix link to the internal node representing its string without the first
\* byte and is exactly once among that node's weiner_links, and every entry of
\* a node's weiner_links has its suffix link at that node.
C8_LinksAreInverse ==
    PhaseDone =>
        LET ps == Paths
        IN  /\ \A u \in NonRoot :
                 LET S == internal[u].suffix_link
                 IN  /\ S # Null
                     /\ \E p \in ps, q \in ps :
                          p[1] = u /\ q[1] = S /\ p[2] # << >> /\ q[2] = Tail(p[2])
                     /\ Count(internal[S].weiner_links, u) = 1
            /\ \A u \in 1..Len(internal) :
                 \A j \in 1..Len(internal[u].weiner_links) :
                    internal[internal[u].weiner_links[j]].suffix_link = u

\* extend has returned on a tree where a node links to a node that is not
\* the root, so that two nodes carry Weiner links
C8_Witness ==
    /\ pc = "ctor"
    /\ \E u \in NonRoot : internal[u].suffix_link \in NonRoot

\* C9: when the constructor has returned, remainder is 0, there are as many
\* leaves as bytes of text, and every suffix is spelled by a path ending
\* exactly at a leaf, different suffixes at different leaves.
C9_ExplicitSuffixTree ==
    pc = "built" =>
        /\ remainder = 0
        /\ Len(leaf) = Len(txt)
        /\ \A i \in 0..(Len(txt) - 1) : LeafOf(Root, i) # Null
        /\ \A i, j \in 0..(Len(txt) - 1) : i # j => LeafOf(Root, i) # LeafOf(Root, j)

\* the constructor has returned a tree with internal nodes below the root
C9_Witness == pc = "built" /\ Len(internal) >= 3 /\ Len(txt) >= 4

\* C10: when the walk-down is taken, the child walked into is an internal
\* node: the assertion of the skip/count branch holds.
C10_WalkDownIntoInternal ==
    (InLoop /\ (is_leaf \/ is_internal) /\ active_length >= ChildLen) => is_internal

\* the walk-down is about to be taken a second time in a row
C10_Witness ==
    /\ InLoop
    /\ is_internal
    /\ active_length >= ChildLen
    /\ active_node # Root

====
